---- MODULE Spec2Model ----
(***************************************************************************)
(* A model of tasks.py, the dotfiles bootstrapper: the filesystem          *)
(* primitives (backup, symlink), the profile appender                      *)
(* (append_unique_line), the platform detector (os_arch), the link         *)
(* reconciler (link_configs), the tool install tasks and the order in      *)
(* which the task runner executes a task and its prerequisites.            *)
(***************************************************************************)
EXTENDS Integers, Sequences, FiniteSets, TLC

VARIABLES
    fs,                \* destination path -> node found there (lstat view)
    backups,           \* <<name, timestamp>> -> entry under BACKUP_ROOT
    backupRootExists,  \* whether BACKUP_ROOT itself exists
    now,               \* the clock, in seconds (what timestamp() formats)
    srcs,              \* source path -> node found there
    cwd,               \* the working directory of the process
    last,              \* the last call of symlink / backup and its outcome
    files,             \* profile file -> [exists, text]
    lastApp,           \* the last call of append_unique_line and its outcome
    nCalls,            \* direct calls of append_unique_line made so far
    env,               \* the host: system, machine, shell, tools on PATH
    dirs,              \* directories the tasks create: [localBin, tpm]
    cfg,               \* configs/config.yaml: [exists, entries]
    rootTask,          \* the task named on the command line
    queue,             \* tasks still to run, in order
    ran,               \* tasks started so far, in order
    cur,               \* the task whose body is running, "" between tasks
    plan,              \* the steps of cur still to execute
    runState,          \* idle | running | unwinding | finished | aborted
    failed,            \* the task and step that raised, and the kind of error
    done,              \* task -> the steps of it that completed
    plat,              \* what os_arch() last returned
    idx,               \* link_configs: the entry the loop is at
    lastEntry          \* link_configs: what the loop did with the last entry

fsV == <<fs, backups, backupRootExists, last>>
worldV == <<srcs, cwd, env, cfg, rootTask>>
appV == <<files, lastApp>>
runV == <<queue, ran, cur, plan, runState, failed, done, plat, dirs, idx,
          lastEntry>>

vars == <<fs, backups, backupRootExists, now, srcs, cwd, last, files, lastApp,
          nCalls, env, dirs, cfg, rootTask, queue, ran, cur, plan, runState,
          failed, done, plat, idx, lastEntry>>

----------------------------------------------------------------------------
(* Bounds *)

MaxTime == 1
MaxFileLen == 3
MaxLineLen == 2
MaxAppends == 2
MaxEntries == 2

----------------------------------------------------------------------------
(* The filesystem *)

\* Destination paths of configuration entries.  They share their last
\* component, as ~/.config/<app>/config files do.
Dests == {"~/a/rc", "~/b/rc"}

\* Destinations in LOCAL_BIN: of the repository's bin script, and of nvim.
BinDests == {"~/.local/bin/tool", "~/.local/bin/nvim"}
AllDests == Dests \cup BinDests

\* path.name: the last component of a path
Name(p) ==
    CASE p = "~/a/rc" -> "rc"
      [] p = "~/b/rc" -> "rc"
      [] p = "~/.local/bin/tool" -> "tool"
      [] p = "~/.local/bin/nvim" -> "nvim"
      [] OTHER -> p

Names == {Name(d) : d \in AllDests}

\* Source paths, under CONFIG_DIR (absolute: REPO_ROOT is resolved).
Sources == {"s1", "s2"}

\* The directory every destination's parent is, and the other place the
\* process may be started from.
DestParent == "home"
Cwds == {"home", "repo"}

Times == 0..MaxTime

NoNode == [kind |-> "absent", content |-> "", target |-> "", rel |-> FALSE]
FileNode(c) == [kind |-> "file", content |-> c, target |-> "", rel |-> FALSE]
DirNode(c) == [kind |-> "dir", content |-> c, target |-> "", rel |-> FALSE]
\* A symbolic link to t; rel: its stored text is relative to its own directory.
LinkNode(t, r) == [kind |-> "symlink", content |-> "", target |-> t, rel |-> r]

InitDestNodes ==
    {NoNode, FileNode("X"), DirNode("A"), LinkNode("s1", TRUE)}
        \cup {LinkNode(t, FALSE) : t \in Sources}

\* What the sources may be: regular files, missing, or s2 a link to s1.
InitSrcs ==
    {f \in [Sources -> {NoNode, FileNode("S"), LinkNode("s1", FALSE)}] :
        f["s1"].kind # "symlink"}

NoEntry == [node |-> NoNode, inner |-> NoNode]
BackupKeys == Names \X Times
NoKey == <<"", -1>>

\* Path.resolve() of an absolute path: symbolic links followed, a missing
\* path kept as it is (strict=False).
RECURSIVE resolve(_)
resolve(p) ==
    IF p \in Sources /\ srcs[p].kind = "symlink"
        THEN resolve(srcs[p].target)
        ELSE p

\* Path(os.readlink(dest)).resolve(): the link's text read back and resolved
\* from the working directory, which is the link's own directory only when the
\* process runs there.
ReadlinkResolved(node) ==
    IF node.rel /\ cwd # DestParent
        THEN "elsewhere"
        ELSE resolve(node.target)

\* dest.is_symlink() or dest.exists(), and `not path.exists() and not
\* path.is_symlink()` negated: anything is there, a broken link included.
Present(node) == node.kind # "absent"

\* src.exists(): the link followed.
SrcExists(s) == srcs[resolve(s)].kind = "file"

\* The test of symlink() for "already correct".
AlreadyCorrectUnresolved(node, src) ==
    node.kind = "symlink" /\ ReadlinkResolved(node) = src

AlreadyCorrect(node, src) ==
    node.kind = "symlink" /\ ReadlinkResolved(node) = resolve(src)

\* The test of symlink() for "something is in the way".
InTheWay(node) == Present(node)

\* BACKUP_ROOT / f"{path.name}.{timestamp()}"
BackupDest(p, t) == <<Name(p), t>>

\* shutil.move(path, dest) into the backup root bk: [raised, bk].
\*   dest missing: renamed to dest.
\*   dest a directory: moved inside it under path.name, an error when that exists.
\*   dest a file or a link (to a file, or broken): os.rename replaces it; a
\*   directory cannot replace it, and the copy that follows fails.
move(bk, key, node) ==
    LET e == bk[key] IN
    IF e.node.kind = "absent"
        THEN [raised |-> FALSE,
              bk |-> [bk EXCEPT ![key] = [node |-> node, inner |-> NoNode]]]
    ELSE IF e.node.kind = "dir"
        THEN IF e.inner.kind # "absent"
                THEN [raised |-> TRUE, bk |-> bk]
                ELSE [raised |-> FALSE, bk |-> [bk EXCEPT ![key].inner = node]]
    ELSE IF node.kind = "dir"
        THEN [raised |-> TRUE, bk |-> bk]
        ELSE [raised |-> FALSE,
              bk |-> [bk EXCEPT ![key] = [node |-> node, inner |-> NoNode]]]

\* backup(path): [moved, raised, key, fs, bk, root]
backup(f, bk, root, p, t) ==
    IF ~Present(f[p])
        THEN [moved |-> FALSE, raised |-> FALSE, key |-> NoKey,
              fs |-> f, bk |-> bk, root |-> root]
        ELSE LET key == BackupDest(p, t)
                 m == move(bk, key, f[p])
             IN  IF m.raised
                    THEN [moved |-> FALSE, raised |-> TRUE, key |-> NoKey,
                          fs |-> f, bk |-> bk, root |-> TRUE]
                    ELSE [moved |-> TRUE, raised |-> FALSE, key |-> key,
                          fs |-> [f EXCEPT ![p] = NoNode], bk |-> m.bk,
                          root |-> TRUE]

\* symlink(src, dest): [res, key, fs, bk, root]
symlink(f, bk, root, src, dest, t) ==
    IF InTheWay(f[dest]) /\ AlreadyCorrect(f[dest], src)
        THEN [res |-> "already", key |-> NoKey, fs |-> f, bk |-> bk,
              root |-> root]
    ELSE LET b == IF InTheWay(f[dest])
                    THEN backup(f, bk, root, dest, t)
                    ELSE [moved |-> FALSE, raised |-> FALSE, key |-> NoKey,
                          fs |-> f, bk |-> bk, root |-> root]
         IN  IF b.raised \/ Present(b.fs[dest])
                THEN [res |-> "raised", key |-> b.key, fs |-> b.fs,
                      bk |-> b.bk, root |-> b.root]
                ELSE [res |-> "linked", key |-> b.key,
                      fs |-> [b.fs EXCEPT ![dest] = LinkNode(src, FALSE)],
                      bk |-> b.bk, root |-> b.root]

NoCall == [op |-> "none", src |-> "", dst |-> "", res |-> "", key |-> NoKey,
           again |-> FALSE]

----------------------------------------------------------------------------
(* The profile appender *)

\* A text is a sequence of tokens: "SP" a blank, "NL" a line break, anything
\* else a run of characters that are not white space.
IsSpace(c) == c \in {"SP", "NL"}

\* str.strip()
RECURSIVE LStrip(_)
LStrip(s) ==
    IF s = <<>> THEN <<>>
    ELSE IF IsSpace(Head(s)) THEN LStrip(Tail(s)) ELSE s

RECURSIVE RStrip(_)
RStrip(s) ==
    IF s = <<>> THEN <<>>
    ELSE IF IsSpace(s[Len(s)]) THEN RStrip(SubSeq(s, 1, Len(s) - 1)) ELSE s

Strip(s) == RStrip(LStrip(s))

\* str.splitlines(): cut at every line break; a text that ends with a line
\* break has no empty last line.
RECURSIVE SplitAcc(_, _, _)
SplitAcc(s, line, acc) ==
    IF s = <<>>
        THEN IF line = <<>> THEN acc ELSE Append(acc, line)
    ELSE IF Head(s) = "NL"
        THEN SplitAcc(Tail(s), <<>>, Append(acc, line))
        ELSE SplitAcc(Tail(s), Append(line, Head(s)), acc)

SplitLines(s) == SplitAcc(s, <<>>, <<>>)

ProfileFiles == {"~/.bashrc", "~/.zshrc"}

NoFile == [exists |-> FALSE, text |-> <<>>]

\* file.read_text() if file.exists() else ""
ReadText(f) == IF f.exists THEN f.text ELSE <<>>

\* line.strip() in [x.strip() for x in existing.splitlines()]
HasLine(text, line) ==
    \E i \in 1..Len(SplitLines(text)) : Strip(SplitLines(text)[i]) = Strip(line)

\* f.write(line + "\n"), the file opened for appending
Written(text, line) == text \o line \o <<"NL">>

\* append_unique_line(file, line): [res, file]
append_unique_line(f, line) ==
    IF ~HasLine(ReadText(f), line)
        THEN [res |-> "appended",
              file |-> [exists |-> TRUE, text |-> Written(ReadText(f), line)]]
        ELSE [res |-> "present", file |-> f]

NoAppend == [op |-> "none", file |-> "", line |-> <<>>, res |-> "",
             again |-> FALSE, dup |-> FALSE]

\* How many lines of text are, trimmed, the trimmed line.
CountTrim(text, line) ==
    Cardinality({i \in 1..Len(SplitLines(text)) :
                    Strip(SplitLines(text)[i]) = Strip(line)})

\* The call recorded: again when it repeats the call before it on the same
\* file with the same line; dup when the file, before the first of the two,
\* already held the trimmed line more than once.
AppendRecord(p, line, r) ==
    LET again == lastApp.op = "append" /\ lastApp.file = p
                    /\ lastApp.line = line
    IN  [op |-> "append", file |-> p, line |-> line, res |-> r.res,
         again |-> again,
         dup |-> IF again THEN lastApp.dup
                 ELSE CountTrim(ReadText(files[p]), line) > 1]

----------------------------------------------------------------------------
(* The platform detector *)

\* What platform.system() and platform.machine() may report.
Systems == {"Darwin", "Linux", "FreeBSD"}
Machines == {"x86_64", "AMD64", "aarch64", "arm64", "riscv64"}

\* str.lower(), on the names that occur
Lower(s) ==
    CASE s = "Darwin" -> "darwin"
      [] s = "Linux" -> "linux"
      [] s = "FreeBSD" -> "freebsd"
      [] s = "AMD64" -> "amd64"
      [] OTHER -> s

\* os_arch(): the pair (sys, arch)
os_arch(system, machine) ==
    LET sys == Lower(system)
        arch == Lower(machine)
    IN  [sys |-> sys,
         arch |-> IF arch \in {"aarch64", "arm64"} THEN "arm64"
                  ELSE IF arch \in {"x86_64", "amd64"} THEN "x86_64"
                  ELSE arch]

NoPlat == [sys |-> "", arch |-> ""]

----------------------------------------------------------------------------
(* The tasks and the order they run in *)

ToolTasks == {"install_fzf", "install_fd", "install_ripgrep", "install_neovim",
              "install_starship", "install_uv", "install_ruff"}

Tasks == ToolTasks \cup
    {"ensure_path", "link_configs", "link_bin_scripts", "install_tpm",
     "install_tmux_plugins", "nvim_venv", "install_all_tools",
     "configure_only", "setup"}

\* The pre= list of each @task, a plausible slip first: install_fd made to
\* depend on install_ripgrep.
PreCrossed(t) ==
    CASE t = "install_tmux_plugins" -> <<"install_tpm">>
      [] t = "install_fd" -> <<"ensure_path", "install_ripgrep">>
      [] t \in ToolTasks \ {"install_fd"} -> <<"ensure_path">>
      [] t = "install_all_tools" ->
            <<"install_fzf", "install_fd", "install_ripgrep", "install_neovim",
              "install_ruff", "install_starship", "link_bin_scripts">>
      [] t = "configure_only" -> <<"ensure_path", "link_configs">>
      [] t = "setup" ->
            <<"install_all_tools", "link_configs", "install_tmux_plugins",
              "nvim_venv">>
      [] OTHER -> <<>>

Pre(t) ==
    CASE t = "install_tmux_plugins" -> <<"install_tpm">>
      [] t \in ToolTasks -> <<"ensure_path">>
      [] t = "install_all_tools" ->
            <<"install_fzf", "install_fd", "install_ripgrep", "install_neovim",
              "install_ruff", "install_starship", "link_bin_scripts">>
      [] t = "configure_only" -> <<"ensure_path", "link_configs">>
      [] t = "setup" ->
            <<"install_all_tools", "link_configs", "install_tmux_plugins",
              "nvim_venv">>
      [] OTHER -> <<>>

\* The runner: every call preceded by the expansion of its prerequisites ...
RECURSIVE ExpandCalls(_)
ExpandCalls(calls) ==
    IF calls = <<>> THEN <<>>
    ELSE ExpandCalls(Pre(Head(calls))) \o <<Head(calls)>>
            \o ExpandCalls(Tail(calls))

\* ... and of the calls so listed, the first of each kept.
RECURSIVE DedupeAcc(_, _)
DedupeAcc(calls, acc) ==
    IF calls = <<>> THEN acc
    ELSE IF \E i \in 1..Len(acc) : acc[i] = Head(calls)
        THEN DedupeAcc(Tail(calls), acc)
        ELSE DedupeAcc(Tail(calls), Append(acc, Head(calls)))

Dedupe(calls) == DedupeAcc(calls, <<>>)

CallList(t) == Dedupe(ExpandCalls(<<t>>))

----------------------------------------------------------------------------
(* The steps of a task *)

\* Steps that cannot fail: shutil.rmtree(ignore_errors=True) and
\* unlink(missing_ok=True).
CanFail(step) == step \notin {"rmtree", "unlink"}

\* run(cmd, check=True): whether a step that fails raises.  The commands run
\* with check=False do not; first, run() as it would be without check.
RaisesUnchecked(step) == step \in {"extract", "place", "place_tree", "chmod"}

Raises(step) ==
    step \notin {"hook", "tmux_start", "tmux_new", "tmux_kill", "clean_state",
                 "clean_share"}

Go(steps) == [raise |-> "", plan |-> steps]
Fail(kind) == [raise |-> kind, plan |-> <<>>]

\* install_fzf: brew on macOS; else the tarball of the OS, amd64 unless arm64.
fzf_dispatch(p, brew) ==
    IF p.sys = "darwin" /\ brew THEN Go(<<"brew", "hook">>)
    ELSE IF p.sys \in {"darwin", "linux"}
        THEN Go(<<"download", "extract", "unlink">>)
        ELSE Fail("unsupported")

\* install_fd and install_ripgrep: brew on macOS; else linux x86_64 or
\* darwin arm64.
tarball_dispatch(p, brew) ==
    IF p.sys = "darwin" /\ brew THEN Go(<<"brew">>)
    ELSE IF (p.sys = "linux" /\ p.arch = "x86_64")
                \/ (p.sys = "darwin" /\ p.arch = "arm64")
        THEN Go(<<"download", "extract", "place", "rmtree", "unlink">>)
        ELSE Fail("unsupported")

\* install_neovim
neovim_dispatch(p, brew) ==
    IF p.sys = "darwin" /\ brew THEN Go(<<"brew">>)
    ELSE IF p.sys = "linux" /\ p.arch = "x86_64"
        THEN Go(<<"download", "chmod", "clean_state", "clean_share">>)
    ELSE IF p.sys = "darwin" /\ p.arch = "arm64"
        THEN Go(<<"download", "extract", "place_tree", "unlink", "clean_state",
                  "clean_share">>)
        ELSE Fail("unsupported")

\* install_starship
starship_dispatch(p, brew) ==
    IF p.sys = "darwin" /\ brew THEN Go(<<"brew">>) ELSE Go(<<"script">>)

\* install_tpm
tpm_dispatch(tpmThere) ==
    IF tpmThere THEN Go(<<"git_fetch", "git_pull">>) ELSE Go(<<"git_clone">>)

\* install_tmux_plugins
tmux_plugins_dispatch(hasTmux, tpmThere) ==
    IF ~hasTmux THEN Fail("missing_tmux")
    ELSE IF ~tpmThere THEN Fail("missing_tpm")
    ELSE Go(<<"tmux_start", "tmux_new", "tpm_install", "tmux_kill">>)

\* nvim_venv
nvim_venv_dispatch(nvimCfg, hasUv) ==
    IF ~nvimCfg THEN Go(<<>>)
    ELSE IF hasUv THEN Go(<<"uv_venv", "uv_sync">>) ELSE Go(<<>>)

NoFailure == [task |-> "", step |-> "", kind |-> ""]

\* The next task of the run is t.
IsNext(t) ==
    /\ runState = "running"
    /\ cur = ""
    /\ queue # <<>>
    /\ Head(queue) = t

\* Task t starts: it raises at once, or its steps are left to run.
Start(t, d) ==
    /\ queue' = Tail(queue)
    /\ ran' = Append(ran, t)
    /\ IF d.raise # ""
        THEN /\ runState' = "aborted"
             /\ failed' = [task |-> t, step |-> "", kind |-> d.raise]
             /\ cur' = t
             /\ plan' = <<>>
        ELSE /\ failed' = failed
             /\ plan' = d.plan
             /\ cur' = IF d.plan = <<>> THEN "" ELSE t
             /\ runState' = IF d.plan = <<>> /\ Tail(queue) = <<>>
                                THEN "finished" ELSE "running"

\* The exception of a step of cur leaves the task and ends the run.
Abort(step, kind) ==
    /\ runState' = "aborted"
    /\ failed' = [task |-> cur, step |-> step, kind |-> kind]
    /\ UNCHANGED <<cur, plan>>

\* cur goes on with the steps `rest`.
Continue(rest) ==
    /\ plan' = rest
    /\ IF rest # <<>>
        THEN UNCHANGED <<cur, runState>>
        ELSE IF runState = "unwinding"
            THEN runState' = "aborted" /\ UNCHANGED cur
            ELSE /\ cur' = ""
                 /\ runState' = IF queue = <<>> THEN "finished" ELSE "running"

InStep ==
    /\ runState \in {"running", "unwinding"}
    /\ cur # ""
    /\ plan # <<>>

----------------------------------------------------------------------------
(* The tasks *)

Shells == {"/bin/zsh", "/bin/bash"}

\* shell.endswith("zsh")
EndsWithZsh(shell) == shell = "/bin/zsh"

\* f'export PATH="{LOCAL_BIN}:$PATH"'
PathLine == <<"export", "SP", "PATH=~/.local/bin:$PATH">>

\* The outcome r of symlink(s, d) written to the filesystem and recorded.
ApplySymlink(r, s, d) ==
    /\ fs' = r.fs
    /\ backups' = r.bk
    /\ backupRootExists' = r.root
    /\ last' = [op |-> "symlink", src |-> s, dst |-> d, res |-> r.res,
                key |-> r.key,
                again |-> (last.op = "symlink" /\ last.src = s /\ last.dst = d
                            /\ last.res # "raised")]

ensure_path ==
    /\ IsNext("ensure_path")
    /\ dirs' = [dirs EXCEPT !.localBin = TRUE]
    /\ LET profile == IF EndsWithZsh(env.shell) THEN "~/.zshrc" ELSE "~/.bashrc"
           r == append_unique_line(files[profile], PathLine)
       IN  /\ files' = [files EXCEPT ![profile] = r.file]
           /\ lastApp' = AppendRecord(profile, PathLine, r)
    /\ Start("ensure_path", Go(<<>>))
    /\ UNCHANGED <<fsV, now, worldV, nCalls, done, plat, idx, lastEntry>>

\* An entry is for this platform: sys in [p.lower() for p in platform].
AppliesAlways(e, sys) == TRUE

Applies(e, sys) ==
    \E i \in 1..Len(e.platform) : Lower(e.platform[i]) = sys

\* The entry's line is appended: inside `if src.exists()`, after symlink()
\* returned, when the entry has an append with a line and a file.
ShouldAppendAnySrc(e, applies, srcOk, linked) ==
    /\ applies
    /\ srcOk => linked
    /\ e.append.has
    /\ e.append.line # <<>>
    /\ e.append.file # ""

ShouldAppend(e, applies, srcOk, linked) ==
    /\ applies
    /\ srcOk
    /\ linked
    /\ e.append.has
    /\ e.append.line # <<>>
    /\ e.append.file # ""

NoEntryDone == [i |-> 0, outcome |-> "", appended |-> FALSE]

\* link_configs up to its loop: the file read, the platform detected.
link_configs ==
    /\ IsNext("link_configs")
    /\ IF ~cfg.exists
        THEN /\ Start("link_configs", Go(<<>>))
             /\ UNCHANGED <<plat, idx>>
        ELSE /\ plat' = os_arch(env.system, env.machine)
             /\ idx' = 1
             /\ Start("link_configs",
                      Go(IF cfg.entries = <<>> THEN <<>> ELSE <<"entries">>))
    /\ UNCHANGED <<fsV, now, worldV, appV, nCalls, done, dirs, lastEntry>>

\* One turn of link_configs' loop.
link_configs_entry ==
    /\ runState = "running"
    /\ cur = "link_configs"
    /\ plan = <<"entries">>
    /\ idx <= Len(cfg.entries)
    /\ LET e == cfg.entries[idx]
           applies == Applies(e, plat.sys)
           srcOk == SrcExists(e.src)
           calls == applies /\ srcOk
           r == symlink(fs, backups, backupRootExists, e.src, e.dst, now)
           linked == calls /\ r.res # "raised"
           appends == ShouldAppend(e, applies, srcOk, linked)
           a == append_unique_line(files[e.append.file], e.append.line)
       IN  /\ IF calls THEN ApplySymlink(r, e.src, e.dst) ELSE UNCHANGED fsV
           /\ IF appends
                THEN /\ files' = [files EXCEPT ![e.append.file] = a.file]
                     /\ lastApp' = AppendRecord(e.append.file, e.append.line, a)
                ELSE UNCHANGED appV
           /\ lastEntry' =
                [i |-> idx,
                 outcome |-> IF ~applies THEN "filtered"
                             ELSE IF ~srcOk THEN "skipped" ELSE r.res,
                 appended |-> appends]
           /\ IF calls /\ r.res = "raised"
                THEN Abort("entries", "step") /\ UNCHANGED idx
                ELSE /\ idx' = idx + 1
                     /\ Continue(IF idx + 1 > Len(cfg.entries)
                                    THEN <<>> ELSE plan)
                     /\ UNCHANGED failed
    /\ UNCHANGED <<now, worldV, nCalls, queue, ran, done, plat, dirs>>

\* The repository's one bin script, an executable file.
link_bin_scripts ==
    /\ IsNext("link_bin_scripts")
    /\ dirs' = [dirs EXCEPT !.localBin = TRUE]
    /\ LET r == symlink(fs, backups, backupRootExists, "bin/tool",
                        "~/.local/bin/tool", now)
       IN  /\ ApplySymlink(r, "bin/tool", "~/.local/bin/tool")
           /\ Start("link_bin_scripts",
                    IF r.res = "raised" THEN Fail("step") ELSE Go(<<>>))
    /\ UNCHANGED <<now, worldV, appV, nCalls, done, plat, idx, lastEntry>>

\* A tool's install task up to its first command: the platform detected and
\* the strategy chosen, LOCAL_BIN made when the code makes it first.
InstallTool(t, d, makesLocalBin) ==
    /\ IsNext(t)
    /\ plat' = os_arch(env.system, env.machine)
    /\ dirs' = IF makesLocalBin THEN [dirs EXCEPT !.localBin = TRUE] ELSE dirs
    /\ Start(t, d)
    /\ UNCHANGED <<fsV, now, worldV, appV, nCalls, done, idx, lastEntry>>

install_fzf ==
    LET p == os_arch(env.system, env.machine) IN
    InstallTool("install_fzf", fzf_dispatch(p, env.brew),
                ~(p.sys = "darwin" /\ env.brew))

install_fd ==
    InstallTool("install_fd",
                tarball_dispatch(os_arch(env.system, env.machine), env.brew),
                FALSE)

install_ripgrep ==
    InstallTool("install_ripgrep",
                tarball_dispatch(os_arch(env.system, env.machine), env.brew),
                FALSE)

install_neovim ==
    InstallTool("install_neovim",
                neovim_dispatch(os_arch(env.system, env.machine), env.brew),
                FALSE)

install_starship ==
    InstallTool("install_starship",
                starship_dispatch(os_arch(env.system, env.machine), env.brew),
                FALSE)

\* A task that reads no platform: its steps, or its return at once.
SimpleTask(t, d) ==
    /\ IsNext(t)
    /\ Start(t, d)
    /\ UNCHANGED <<fsV, now, worldV, appV, nCalls, done, plat, dirs, idx,
                   lastEntry>>

install_uv == SimpleTask("install_uv", Go(<<"script">>))

install_ruff == SimpleTask("install_ruff", Go(<<"script">>))

install_tpm == SimpleTask("install_tpm", tpm_dispatch(dirs.tpm))

install_tmux_plugins ==
    SimpleTask("install_tmux_plugins",
               tmux_plugins_dispatch(env.tmux, dirs.tpm))

nvim_venv == SimpleTask("nvim_venv", nvim_venv_dispatch(env.nvimCfg, env.uv))

install_all_tools == SimpleTask("install_all_tools", Go(<<>>))

configure_only == SimpleTask("configure_only", Go(<<>>))

setup == SimpleTask("setup", Go(<<>>))

\* The step at the head of the plan succeeds.
step_ok ==
    /\ InStep
    /\ Head(plan) \notin {"place_tree", "entries"}
    /\ done' = [done EXCEPT ![cur] = Append(@, Head(plan))]
    /\ dirs' = IF Head(plan) = "git_clone" THEN [dirs EXCEPT !.tpm = TRUE]
               ELSE dirs
    /\ Continue(Tail(plan))
    /\ UNCHANGED <<fsV, now, worldV, appV, nCalls, queue, ran, failed, plat,
                   idx, lastEntry>>

\* The step at the head of the plan fails: a command exits non-zero, or the
\* Python call raises.  install_tmux_plugins kills its session in a finally.
step_fail ==
    /\ InStep
    /\ Head(plan) # "entries"
    /\ CanFail(Head(plan))
    /\ IF Raises(Head(plan))
        THEN IF cur = "install_tmux_plugins" /\ Head(plan) = "tpm_install"
                THEN /\ runState' = "unwinding"
                     /\ failed' = [task |-> cur, step |-> Head(plan),
                                   kind |-> "step"]
                     /\ plan' = Tail(plan)
                     /\ UNCHANGED cur
                ELSE Abort(Head(plan), "step")
        ELSE Continue(Tail(plan)) /\ UNCHANGED failed
    /\ UNCHANGED <<fsV, now, worldV, appV, nCalls, queue, ran, done, plat,
                   dirs, idx, lastEntry>>

\* install_neovim on macOS without brew: the tree moved to ~/.local/nvim and
\* its nvim linked into LOCAL_BIN.
install_neovim_place ==
    /\ InStep
    /\ cur = "install_neovim"
    /\ Head(plan) = "place_tree"
    /\ LET r == symlink(fs, backups, backupRootExists, "~/.local/nvim/bin/nvim",
                        "~/.local/bin/nvim", now)
       IN  /\ ApplySymlink(r, "~/.local/nvim/bin/nvim", "~/.local/bin/nvim")
           /\ IF r.res = "raised"
                THEN Abort("place_tree", "step") /\ UNCHANGED done
                ELSE /\ done' = [done EXCEPT ![cur] = Append(@, "place_tree")]
                     /\ Continue(Tail(plan))
                     /\ UNCHANGED failed
    /\ UNCHANGED <<now, worldV, appV, nCalls, queue, ran, plat, dirs, idx,
                   lastEntry>>

----------------------------------------------------------------------------
(* Specifications *)

NoCfg == [exists |-> FALSE, entries |-> <<>>]
NoApp == [has |-> FALSE, line |-> <<>>, file |-> ""]

QuietHost == [system |-> "Linux", machine |-> "x86_64", brew |-> FALSE,
              shell |-> "/bin/bash", tmux |-> FALSE, uv |-> FALSE,
              nvimCfg |-> FALSE]

\* No task runner is at work.
NoRun ==
    /\ rootTask = ""
    /\ queue = <<>>
    /\ ran = <<>>
    /\ cur = ""
    /\ plan = <<>>
    /\ runState = "idle"
    /\ failed = NoFailure
    /\ done = [t \in Tasks |-> <<>>]
    /\ plat = NoPlat
    /\ idx = 0
    /\ lastEntry = NoEntryDone
    /\ cfg = NoCfg
    /\ env = QuietHost
    /\ dirs = [localBin |-> FALSE, tpm |-> FALSE]

\* The runner has listed the calls of task t and run none of them.
RunOf(t) ==
    /\ rootTask = t
    /\ queue = CallList(t)
    /\ ran = <<>>
    /\ cur = ""
    /\ plan = <<>>
    /\ runState = "running"
    /\ failed = NoFailure
    /\ done = [u \in Tasks |-> <<>>]
    /\ plat = NoPlat
    /\ idx = 0
    /\ lastEntry = NoEntryDone

\* The destinations of configuration entries hold g, LOCAL_BIN holds b.
FsOf(g, b) == [d \in AllDests |-> IF d \in Dests THEN g[d] ELSE b]

(* backup and symlink called one after another, over any paths and times *)

InitFS ==
    /\ \E g \in [Dests -> InitDestNodes] : fs = FsOf(g, NoNode)
    /\ backups = [k \in BackupKeys |-> NoEntry]
    /\ backupRootExists \in BOOLEAN
    /\ now = 0
    /\ srcs \in InitSrcs
    /\ cwd \in Cwds
    /\ last = NoCall
    /\ files = [p \in ProfileFiles |-> NoFile]
    /\ lastApp = NoAppend
    /\ nCalls = 0
    /\ NoRun

SymlinkCall(s, d) ==
    /\ ApplySymlink(symlink(fs, backups, backupRootExists, s, d, now), s, d)
    /\ UNCHANGED <<now, worldV, appV, nCalls, runV>>

BackupCall(d) ==
    LET r == backup(fs, backups, backupRootExists, d, now) IN
    /\ fs' = r.fs
    /\ backups' = r.bk
    /\ backupRootExists' = r.root
    /\ last' = [op |-> "backup", src |-> "", dst |-> d,
                res |-> IF r.raised THEN "raised"
                        ELSE IF r.moved THEN "moved" ELSE "nothing",
                key |-> r.key, again |-> FALSE]
    /\ UNCHANGED <<now, worldV, appV, nCalls, runV>>

\* A second passes.
Tick ==
    /\ now < MaxTime
    /\ now' = now + 1
    /\ UNCHANGED <<fsV, worldV, appV, nCalls, runV>>

NextFS ==
    \/ \E s \in Sources, d \in Dests : SymlinkCall(s, d)
    \/ \E d \in Dests : BackupCall(d)
    \/ Tick

SpecFS == InitFS /\ [][NextFS]_vars

(* append_unique_line called one after another, over any text and line *)

TextsUpTo(alphabet, n) == UNION {[1..k -> alphabet] : k \in 0..n}

InitTexts == TextsUpTo({"a", "b", "SP", "NL"}, MaxFileLen)
Lines == TextsUpTo({"a", "b", "SP"}, MaxLineLen)

InitAppend ==
    /\ fs = FsOf([d \in Dests |-> NoNode], NoNode)
    /\ backups = [k \in BackupKeys |-> NoEntry]
    /\ backupRootExists = FALSE
    /\ now = 0
    /\ srcs = [s \in Sources |-> FileNode("S")]
    /\ cwd = "repo"
    /\ last = NoCall
    /\ \E f \in {NoFile} \cup {[exists |-> TRUE, text |-> s] : s \in InitTexts} :
            files = [p \in ProfileFiles |->
                        IF p = "~/.bashrc" THEN f ELSE NoFile]
    /\ lastApp = NoAppend
    /\ nCalls = 0
    /\ NoRun

AppendCall(p, line) ==
    /\ nCalls < MaxAppends
    /\ nCalls' = nCalls + 1
    /\ LET r == append_unique_line(files[p], line) IN
        /\ files' = [files EXCEPT ![p] = r.file]
        /\ lastApp' = AppendRecord(p, line, r)
    /\ UNCHANGED <<fsV, now, worldV, runV>>

NextAppend == \E p \in ProfileFiles, line \in Lines : AppendCall(p, line)

SpecAppend == InitAppend /\ [][NextAppend]_vars

(* One run of the task runner, on any host *)

Hosts ==
    [system : Systems, machine : Machines, brew : BOOLEAN, shell : Shells,
     tmux : BOOLEAN, uv : BOOLEAN, nvimCfg : BOOLEAN]

Roots == {"setup", "install_all_tools", "configure_only", "install_uv"}

\* The configuration the runs below read.
RunCfg ==
    [exists |-> TRUE,
     entries |->
        << [src |-> "s1", dst |-> "~/a/rc", platform |-> <<"linux", "darwin">>,
            append |-> [has |-> TRUE, line |-> <<"a">>, file |-> "~/.bashrc"]],
           [src |-> "s2", dst |-> "~/b/rc", platform |-> <<"Darwin">>,
            append |-> NoApp] >>]

InitRun ==
    /\ fs = FsOf([d \in Dests |-> IF d = "~/a/rc" THEN FileNode("X")
                                  ELSE NoNode], NoNode)
    /\ backups = [k \in BackupKeys |-> NoEntry]
    /\ backupRootExists = FALSE
    /\ now = 0
    /\ srcs = [s \in Sources |-> IF s = "s1" THEN FileNode("S") ELSE NoNode]
    /\ cwd = "repo"
    /\ last = NoCall
    /\ files = [p \in ProfileFiles |-> NoFile]
    /\ lastApp = NoAppend
    /\ nCalls = 0
    /\ env \in Hosts
    /\ dirs \in [localBin : {FALSE}, tpm : BOOLEAN]
    /\ cfg = RunCfg
    /\ \E t \in Roots : RunOf(t)

NextRun ==
    \/ ensure_path
    \/ link_configs
    \/ link_configs_entry
    \/ link_bin_scripts
    \/ install_tpm
    \/ install_tmux_plugins
    \/ install_fzf
    \/ install_fd
    \/ install_ripgrep
    \/ install_uv
    \/ install_ruff
    \/ install_neovim
    \/ install_neovim_place
    \/ install_starship
    \/ nvim_venv
    \/ install_all_tools
    \/ configure_only
    \/ setup
    \/ step_ok
    \/ step_fail

SpecRun == InitRun /\ [][NextRun]_vars

(* link_configs run over any configuration *)

Platforms == {<<"Linux">>, <<"darwin">>, <<"Darwin", "linux">>}

Appends ==
    {NoApp, [has |-> TRUE, line |-> <<"a">>, file |-> "~/.bashrc"]}

Entries == [src : Sources, dst : Dests, platform : Platforms, append : Appends]

Configs ==
    {NoCfg} \cup
    {[exists |-> TRUE, entries |-> es] : es \in TextsUpTo(Entries, MaxEntries)}

InitLink ==
    /\ \E n \in {NoNode, FileNode("X"), DirNode("A")} :
            fs = FsOf([d \in Dests |-> IF d = "~/a/rc" THEN n
                                       ELSE FileNode("Y")], NoNode)
    /\ backups = [k \in BackupKeys |-> NoEntry]
    /\ backupRootExists = FALSE
    /\ now = 0
    /\ srcs \in {f \in InitSrcs : f["s1"].kind = "file" /\ f["s2"].kind # "symlink"}
    /\ cwd = "repo"
    /\ last = NoCall
    /\ files = [p \in ProfileFiles |-> NoFile]
    /\ lastApp = NoAppend
    /\ nCalls = 0
    /\ \E s \in {"Linux", "Darwin"} : env = [QuietHost EXCEPT !.system = s]
    /\ dirs = [localBin |-> FALSE, tpm |-> FALSE]
    /\ cfg \in Configs
    /\ RunOf("link_configs")

NextLink ==
    \/ link_configs
    \/ link_configs_entry

SpecLink == InitLink /\ [][NextLink]_vars

----------------------------------------------------------------------------
(* Properties of backup and symlink *)

\* What a displaced thing is, whatever was later moved beside it.
Things ==
    (InitDestNodes \ {NoNode}) \cup {LinkNode(s, FALSE) : s \in Sources}

\* How many times a thing is found under the backup root.
Count(bk, a) ==
    Cardinality({k \in BackupKeys : bk[k].node = a})
        + Cardinality({k \in BackupKeys : bk[k].inner = a})

\* Where a link really leads, every link followed: node.target is where its
\* text points from the link's own directory.
TrueTarget(node) == resolve(node.target)

\* Where the link at a destination really leads is where src leads.
TrulyCorrect(node, src) ==
    node.kind = "symlink" /\ TrueTarget(node) = resolve(src)

\* C1: backup and symlink never drop data.  Over any calls, paths and times:
\* nothing held under the backup root is deleted or overwritten; whatever a
\* call displaces from a destination is found under the backup root
\* afterwards; and after symlink(s, d) on a regular file d with content X, a
\* file with content X is under the backup root and d is a symbolic link to s.
C1_NeverDropsData ==
    [][ /\ \A a \in Things : Count(backups', a) >= Count(backups, a)
        /\ \A d \in Dests :
              (Present(fs[d]) /\ fs'[d] # fs[d])
                  => Count(backups', fs[d]) = Count(backups, fs[d]) + 1
        /\ \A s \in Sources, d \in Dests :
              (SymlinkCall(s, d) /\ fs[d].kind = "file"
                    /\ last'.res # "raised")
                  => /\ Count(backups', fs[d]) >= 1
                     /\ fs'[d] = LinkNode(s, FALSE)
      ]_vars

\* C2: symlink is idempotent.  A call symlink(s, d) that directly follows a
\* completed call symlink(s, d) leaves every destination, the backup root and
\* its entries as they were, and makes no backup.
C2_SymlinkIdempotent ==
    [][ \A s \in Sources, d \in Dests :
            (SymlinkCall(s, d) /\ last'.again)
                => /\ fs' = fs
                   /\ backups' = backups
                   /\ backupRootExists' = backupRootExists
                   /\ last'.key = NoKey
                   /\ last'.res = "already"
      ]_vars

\* C2's case: symlink(s, d) was just repeated, the first call having moved
\* what was at d into the backup root and linked d to s.
C2_Witness ==
    /\ last.op = "symlink"
    /\ last.again
    /\ fs[last.dst] = LinkNode(last.src, FALSE)
    /\ \E k \in BackupKeys : backups[k].node.kind \in {"file", "dir", "symlink"}

\* C10: a backup exactly when needed.  In every completed call symlink(s, d) a
\* new entry holding what was at d appears under the backup root if and only
\* if d was there (file, directory or link, broken or not) and was not already
\* a link leading where s leads; otherwise the backup root is unchanged.
C10_BackupIffNeeded ==
    [][ \A s \in Sources, d \in Dests :
            (SymlinkCall(s, d) /\ last'.res # "raised")
                => LET needed == Present(fs[d]) /\ ~TrulyCorrect(fs[d], s)
                       made == /\ last'.key # NoKey
                               /\ \/ backups'[last'.key].node = fs[d]
                                  \/ backups'[last'.key].inner = fs[d]
                   IN  /\ made <=> needed
                       /\ ~needed => /\ backups' = backups
                                     /\ backupRootExists' = backupRootExists
      ]_vars

----------------------------------------------------------------------------
(* Properties of append_unique_line *)

\* C3: append_unique_line is idempotent.  When append_unique_line(f, line) is
\* called twice on a file that did not already hold the trimmed line more than
\* once, the second call finds the line and leaves f alone, and f then has
\* exactly one line that is, trimmed, the trimmed line.
C3_AppendIdempotent ==
    (lastApp.op = "append" /\ lastApp.again /\ ~lastApp.dup)
        => /\ lastApp.res = "present"
           /\ CountTrim(ReadText(files[lastApp.file]), lastApp.line) = 1

----------------------------------------------------------------------------
(* Properties of a run *)

InRan(t) == \E i \in 1..Len(ran) : ran[i] = t
Pos(t) == CHOOSE i \in 1..Len(ran) : ran[i] = t

\* The enumeration of supported platforms.
Supported(p) == p.sys \in {"darwin", "linux"} /\ p.arch \in {"x86_64", "arm64"}

\* C4: unsupported combinations fail fast.  Once the install task of fzf, fd,
\* ripgrep, neovim or starship has started on a host whose (sys, arch) is
\* outside {darwin, linux} x {x86_64, arm64}, it has raised the unsupported
\* error and has run no step: no download, no placement.
C4_UnsupportedFailsFast ==
    \A t \in {"install_fzf", "install_fd", "install_ripgrep", "install_neovim",
              "install_starship"} :
        (InRan(t) /\ ~Supported(os_arch(env.system, env.machine)))
            => /\ runState = "aborted"
               /\ failed.task = t
               /\ failed.kind = "unsupported"
               /\ done[t] = <<>>

\* C7: the platform detector's enumeration is closed.  Whatever the host
\* reports, a pair os_arch has returned is in {darwin, linux} x {x86_64, arm64}.
C7_ClosedEnumeration == plat = NoPlat \/ Supported(plat)

\* C8: run once, in declared order.  In a run no task starts twice; a task
\* starts only after each of its prerequisites has started, which the runner
\* runs to its end first; and of the prerequisites of one task, a later one
\* starts only after the ones declared before it.
C8_RunOnceInOrder ==
    /\ \A i, j \in 1..Len(ran) : ran[i] = ran[j] => i = j
    /\ \A t \in Tasks :
          InRan(t) => \A k \in 1..Len(Pre(t)) :
                          /\ InRan(Pre(t)[k])
                          /\ Pos(Pre(t)[k]) < Pos(t)
                          /\ cur # Pre(t)[k]
    /\ \A t \in Tasks :
          (InRan(t) \/ \E i \in 1..Len(queue) : queue[i] = t)
            => \A k, l \in 1..Len(Pre(t)) :
                  (k < l /\ InRan(Pre(t)[l]))
                      => InRan(Pre(t)[k]) /\ Pos(Pre(t)[k]) < Pos(Pre(t)[l])

\* C8's case: the full setup has run to its end, ensure_path, reachable
\* through every install task, among its fourteen tasks.
C8_Witness ==
    /\ rootTask = "setup"
    /\ runState = "finished"
    /\ Len(ran) = 14
    /\ InRan("ensure_path")

\* The steps the claim names: package-manager command, download, extraction,
\* placement, install script.
IsFatal(step) ==
    step \in {"brew", "download", "extract", "place", "place_tree", "chmod",
              "script"}

\* The steps of tool task u on this host when nothing fails.
PlanOf(u) ==
    LET p == os_arch(env.system, env.machine) IN
    CASE u = "install_fzf" -> fzf_dispatch(p, env.brew).plan
      [] u \in {"install_fd", "install_ripgrep"} ->
            tarball_dispatch(p, env.brew).plan
      [] u = "install_neovim" -> neovim_dispatch(p, env.brew).plan
      [] u = "install_starship" -> starship_dispatch(p, env.brew).plan
      [] OTHER -> <<"script">>

FatalPlan(u) == SelectSeq(PlanOf(u), IsFatal)
FatalDone(u) == SelectSeq(done[u], IsFatal)

IsPrefix(s, t) == Len(s) <= Len(t) /\ s = SubSeq(t, 1, Len(s))

InCallList(u) == InRan(u) \/ \E i \in 1..Len(queue) : queue[i] = u

----------------------------------------------------------------------------
(* Properties of link_configs *)

\* The lower-cased name of the operating system is in the entry's lower-cased
\* platform list.
InPlatforms(e, system) ==
    Lower(system) \in {Lower(e.platform[i]) : i \in 1..Len(e.platform)}

\* C5: platform filtering.  A turn of link_configs' loop on an entry whose
\* platform list does not hold the operating system changes no destination,
\* no profile file and nothing under the backup root: an entry is applied
\* only if the operating system is in its list.
C5_PlatformFiltering ==
    [][ (link_configs_entry /\ ~InPlatforms(cfg.entries[idx], env.system))
            => /\ UNCHANGED <<fs, backups, backupRootExists, files>>
               /\ lastEntry'.outcome = "filtered"
               /\ ~lastEntry'.appended
      ]_vars

\* C5's case: on one host the loop has applied the first entry, moving what
\* was at its destination away, and then filtered out the second, which
\* declares an append.
C5_Witness ==
    /\ lastEntry.i = 2
    /\ lastEntry.outcome = "filtered"
    /\ cfg.entries[2].append.has
    /\ InPlatforms(cfg.entries[1], env.system)
    /\ fs[cfg.entries[1].dst] = LinkNode(cfg.entries[1].src, FALSE)
    /\ backupRootExists

\* C6: skip on missing source.  A turn of link_configs' loop on an entry for
\* this platform whose source does not exist changes no destination, no
\* profile file and nothing under the backup root, raises nothing, and moves
\* the loop on to the next entry.
C6_SkipMissingSource ==
    [][ (link_configs_entry /\ InPlatforms(cfg.entries[idx], env.system)
            /\ ~SrcExists(cfg.entries[idx].src))
            => /\ UNCHANGED <<fs, backups, backupRootExists, files>>
               /\ runState' # "aborted"
               /\ failed' = NoFailure
               /\ idx' = idx + 1
               /\ idx < Len(cfg.entries)
                    => cur' = "link_configs" /\ runState' = "running"
      ]_vars

\* C6's case: the first entry, for this platform and with an append, was
\* skipped for its missing source, and the loop went on to link the second.
C6_Witness ==
    /\ lastEntry.i = 2
    /\ lastEntry.outcome = "linked"
    /\ InPlatforms(cfg.entries[1], env.system)
    /\ ~SrcExists(cfg.entries[1].src)
    /\ cfg.entries[1].append.has
    /\ files = [p \in ProfileFiles |-> NoFile]

====
